---- MODULE Spec2Model ----
(***************************************************************************)
(* Model of the incremental document indexing and story generation code    *)
(* of llm_story_generator (story_generator.py, main.py, db_manager.py).    *)
(*                                                                         *)
(* Paths and file contents are sequences of string tokens, so that joining *)
(* a path, formatting a story file and splitting a text are computed the   *)
(* way the code computes them.                                             *)
(***************************************************************************)
EXTENDS Integers, Sequences, FiniteSets, TLC

VARIABLES
    fs,         \* the documents tree: rel_path -> bytes of the files under DOCS_PATH
    hash_db,    \* the fingerprint file at HASH_DB_PATH
    index,      \* the persisted index at INDEX_PATH
    stories,    \* the rows of the stories table
    pc,         \* position of the request handler
    req,        \* arguments and first locals of the running generate_story
    docs,       \* the documents returned by the last load_documents
    vectordb,   \* the handle returned by the last append_to_index
    story,      \* the story text of the running generate_story
    retrieved,  \* the chunks the retriever handed to the chain
    out,        \* outcome of the last call
    pre,        \* files and arguments as they were when the last call started
    net,        \* requests sent to the model server by the running generate_story
    examined,   \* what the last load_documents found for each file it loaded
    embedded,   \* log of the files whose chunks were added to the index
    edits,      \* number of edits of the documents tree so far
    probe,      \* what the models-list probe of the running generate_story met
    calls,      \* the locals of the append_to_index invocations that run side by side
    issued      \* log of the add_story calls made on the database on its own

vars == <<fs, hash_db, index, stories, pc, req, docs, vectordb, story, retrieved,
          out, pre, net, examined, embedded, edits, probe, calls, issued>>

(***************************************************************************)
(* Bounds of the model.                                                    *)
(***************************************************************************)
\* edits of the documents tree plus stories recorded
MaxHistory == 3
MaxIndex == 6

(***************************************************************************)
(* Configuration (config.py).                                              *)
(***************************************************************************)
DOCS_PATH == "./docs"
MEMORY_STORIES_DIR == "memory_stories"
k == 3
\* chunk_size and chunk_overlap of VECTOR_STORE_SETTINGS, scaled down to the
\* token texts of the model (the overlap stays smaller than the size).
chunk_size == 3
chunk_overlap == chunk_size - 2

(***************************************************************************)
(* Helpers on sequences and partial functions.                             *)
(***************************************************************************)
Range(s) == {s[i] : i \in DOMAIN s}

Last(s) == s[Len(s)]

NoEntries == [p \in {} |-> <<>>]

RECURSIVE Flatten(_)
Flatten(ss) == IF ss = <<>> THEN <<>> ELSE Head(ss) \o Flatten(Tail(ss))

(***************************************************************************)
(* The documents tree.  A relative path is a sequence of tokens whose last *)
(* token is the extension.                                                 *)
(***************************************************************************)
FileA == <<"a", ".txt">>
FileB == <<"b", ".pdf">>
FileN == <<"n", ".md">>
UserFiles == {FileA, FileB, FileN}

BadByte == "\\xff"
PageBreak == "\\f"

Hello == <<"hello", " ", "big", " ", "world">>
TwoPages == <<"p1", PageBreak, "p2">>
Garbled == <<BadByte>>
\* the contents the user gives each file
ContentsOf(rel_path) ==
    IF rel_path = FileA THEN {<<>>, Hello, TwoPages, Garbled}
    ELSE IF rel_path = FileB THEN {<<>>, TwoPages}
    ELSE {Hello}

\* os.path.join(path, rel_path)
Join(path, rel_path) == <<path, "/">> \o rel_path

\* file.endswith((".txt", ".pdf", ".docx"))
Supported(rel_path) == Last(rel_path) \in {".txt", ".pdf", ".docx"}

\* hashlib.md5(f.read()).hexdigest(): a digest of the bytes, injective on
\* the contents of the model.
hash_file(bytes) == [md5 |-> bytes]


(***************************************************************************)
(* Content Fingerprint Store: the JSON file at HASH_DB_PATH.               *)
(* hash_db = [exists |-> BOOLEAN, map |-> rel_path -> digest].             *)
(***************************************************************************)
\* load_hash_db(): {} when the file does not exist
load_hash_db(file) == IF file.exists THEN file.map ELSE NoEntries

\* an update in which the stored entry wins
DictUpdateOldWins(d, new) ==
    [p \in DOMAIN d \cup DOMAIN new |-> IF p \in DOMAIN d THEN d[p] ELSE new[p]]

\* an update that keeps only the new entries
DictUpdateOnlyNew(d, new) == new

\* dict.update: last write wins per key
DictUpdate(d, new) ==
    [p \in DOMAIN d \cup DOMAIN new |-> IF p \in DOMAIN new THEN new[p] ELSE d[p]]

\* an update that rewrites the file without the new entries
UpdateHashDbLost(file, new_hashes) ==
    [exists |-> TRUE, map |-> load_hash_db(file)]

\* update_hash_db(new_hashes): load, update, rewrite the file
update_hash_db(file, new_hashes) ==
    [exists |-> TRUE, map |-> DictUpdate(load_hash_db(file), new_hashes)]

(***************************************************************************)
(* Document Loader.                                                        *)
(***************************************************************************)
\* A selection is [none |-> BOOLEAN, items |-> sequence of rel paths];
\* none stands for selected_files=None.
NoSelection == [none |-> TRUE, items |-> <<>>]
ListOf(items) == [none |-> FALSE, items |-> items]

\* a test that takes every list for a selection
TruthyIfList(selected_files) == ~selected_files.none

\* Python truth value of selected_files
Truthy(selected_files) == ~selected_files.none /\ selected_files.items # <<>>

\* The format loaders raise on bytes they cannot decode, and the PDF and
\* DOCX parsers raise on an empty file.
Malformed(rel_path, bytes) ==
    \/ BadByte \in Range(bytes)
    \/ Last(rel_path) \in {".pdf", ".docx"} /\ bytes = <<>>

\* The pages of a PDF: the texts between page breaks.
RECURSIVE SplitPages(_, _)
SplitPages(bytes, page) ==
    IF bytes = <<>> THEN <<page>>
    ELSE IF Head(bytes) = PageBreak
         THEN <<page>> \o SplitPages(Tail(bytes), <<>>)
         ELSE SplitPages(Tail(bytes), Append(page, Head(bytes)))

Document(page_content, source) == [page_content |-> page_content, source |-> source]

\* TextLoader / PyPDFLoader / Docx2txtLoader (full_path).load()
LoaderLoad(rel_path, full_path, bytes) ==
    IF Last(rel_path) = ".pdf"
    THEN LET pages == SplitPages(bytes, <<>>)
         IN  [i \in 1..Len(pages) |-> Document(pages[i], full_path)]
    ELSE <<Document(bytes, full_path)>>

\* os.walk(path): the files of the tree in the directory order, which is
\* arbitrary but fixed.
RECURSIVE WalkOrder(_)
WalkOrder(S) ==
    IF S = {} THEN <<>>
    ELSE LET p == CHOOSE q \in S : TRUE IN <<p>> \o WalkOrder(S \ {p})

\* a loop body without the test of the selection
SelectedAlways(rel_path, selected_files) == TRUE

\* Does the loop body of load_documents reach the format loader for rel_path?
Selected(rel_path, selected_files) ==
    ~(Truthy(selected_files) /\ rel_path \notin Range(selected_files.items))

\* a loader that never skips a file
UnchangedNever(db, rel_path, file_hash) == FALSE

Unchanged(db, rel_path, file_hash) ==
    rel_path \in DOMAIN db /\ db[rel_path] = file_hash

Loads(tree, db, selected_files, rel_path) ==
    /\ Supported(rel_path)
    /\ Selected(rel_path, selected_files)
    /\ rel_path \in DOMAIN tree
    /\ ~Unchanged(db, rel_path, hash_file(tree[rel_path]))

\* The walk of load_documents over the remaining files: the state of the
\* loop is [raised, docs, hashes].
RECURSIVE WalkFiles(_, _, _, _, _, _)
WalkFiles(files, tree, path, db, selected_files, acc) ==
    IF files = <<>> \/ acc.raised THEN acc
    ELSE LET rel_path == Head(files)
             full_path == Join(path, rel_path)
         IN  IF ~Loads(tree, db, selected_files, rel_path)
             THEN WalkFiles(Tail(files), tree, path, db, selected_files, acc)
             ELSE IF Malformed(rel_path, tree[rel_path])
             THEN [acc EXCEPT !.raised = TRUE]
             ELSE WalkFiles(Tail(files), tree, path, db, selected_files,
                     [raised |-> FALSE,
                      docs |-> acc.docs \o LoaderLoad(rel_path, full_path, tree[rel_path]),
                      hashes |-> (rel_path :> hash_file(tree[rel_path])) @@ acc.hashes])

\* a loader that has stored the fingerprint of each file as it loaded it
LoadDocumentsSavesEarly(tree, file, path, selected_files) ==
    LET walk == WalkFiles(WalkOrder(DOMAIN tree), tree, path, load_hash_db(file),
                          selected_files,
                          [raised |-> FALSE, docs |-> <<>>, hashes |-> NoEntries])
    IN  [raised |-> walk.raised, docs |-> IF walk.raised THEN <<>> ELSE walk.docs,
         hashes |-> walk.hashes, hash_db |-> update_hash_db(file, walk.hashes)]

\* a loader that returns what it has when a file fails
LoadDocumentsPartial(tree, file, path, selected_files) ==
    LET walk == WalkFiles(WalkOrder(DOMAIN tree), tree, path, load_hash_db(file),
                          selected_files,
                          [raised |-> FALSE, docs |-> <<>>, hashes |-> NoEntries])
    IN  [raised |-> FALSE, docs |-> walk.docs, hashes |-> walk.hashes,
         hash_db |-> update_hash_db(file, walk.hashes)]

\* load_documents(path, selected_files): [raised, docs, hashes, hash_db'],
\* hash_db' being the fingerprint file after the call.
load_documents(tree, file, path, selected_files) ==
    LET walk == WalkFiles(WalkOrder(DOMAIN tree), tree, path, load_hash_db(file),
                          selected_files,
                          [raised |-> FALSE, docs |-> <<>>, hashes |-> NoEntries])
    IN  IF walk.raised
        THEN [raised |-> TRUE, docs |-> <<>>, hashes |-> walk.hashes, hash_db |-> file]
        ELSE [raised |-> FALSE, docs |-> walk.docs, hashes |-> walk.hashes,
              hash_db |-> update_hash_db(file, walk.hashes)]


(***************************************************************************)
(* Chunker: RecursiveCharacterTextSplitter, as windows of chunk_size       *)
(* tokens that overlap by chunk_overlap.                                   *)
(***************************************************************************)
RECURSIVE split_text(_)
split_text(text) ==
    IF text = <<>> THEN <<>>
    ELSE IF Len(text) <= chunk_size THEN <<text>>
    ELSE <<SubSeq(text, 1, chunk_size)>>
         \o split_text(SubSeq(text, chunk_size - chunk_overlap + 1, Len(text)))

ChunksOf(doc) ==
    LET texts == split_text(doc.page_content)
    IN  [i \in 1..Len(texts) |-> Document(texts[i], doc.source)]

\* a splitter that joins the texts before it cuts them
SplitDocumentsJoined(new_docs) ==
    LET texts == split_text(Flatten([i \in 1..Len(new_docs) |-> new_docs[i].page_content]))
    IN  [i \in 1..Len(texts) |-> Document(texts[i], new_docs[1].source)]

\* splitter.split_documents(new_docs)
split_documents(new_docs) ==
    Flatten([i \in 1..Len(new_docs) |-> ChunksOf(new_docs[i])])

(***************************************************************************)
(* Embedding/Index Adapter: the FAISS store saved at INDEX_PATH.           *)
(* index = [exists |-> BOOLEAN, docs |-> sequence of chunks].              *)
(***************************************************************************)
NoIndex == [exists |-> FALSE, docs |-> <<>>]
NoErr == [kind |-> "", msg |-> ""]
Err(kind, msg) == [kind |-> kind, msg |-> msg]

\* a load that answers an empty store when nothing is persisted
LoadVectordbLenient(idx, embedder_ok) ==
    IF ~embedder_ok
    THEN [raised |-> TRUE, error |-> Err("EmbedderError", "embedding model"), vectordb |-> NoIndex]
    ELSE [raised |-> FALSE, error |-> NoErr, vectordb |-> [exists |-> TRUE, docs |-> idx.docs]]

\* load_vectordb(): [raised, error, vectordb]
load_vectordb(idx, embedder_ok) ==
    IF ~embedder_ok
    THEN [raised |-> TRUE, error |-> Err("EmbedderError", "embedding model"), vectordb |-> NoIndex]
    ELSE IF ~idx.exists
    THEN [raised |-> TRUE, error |-> Err("RuntimeError", "no index"), vectordb |-> NoIndex]
    ELSE [raised |-> FALSE, error |-> NoErr, vectordb |-> idx]

\* an append of nothing that saves a fresh, empty index
AppendNothingSaves(idx, embedder_ok) ==
    [raised |-> ~embedder_ok,
     error |-> IF embedder_ok THEN NoErr ELSE Err("EmbedderError", "embedding model"),
     vectordb |-> [exists |-> TRUE, docs |-> <<>>],
     index |-> IF embedder_ok THEN [exists |-> TRUE, docs |-> <<>>] ELSE idx]

\* append_to_index, lines 170-171: no new documents
AppendNothing(idx, embedder_ok) ==
    LET r == load_vectordb(idx, embedder_ok)
    IN  [raised |-> r.raised, error |-> r.error, vectordb |-> r.vectordb, index |-> idx]

\* an append that always builds the index from the new chunks alone
AppendChunksFresh(idx, new_docs, embedder_ok) ==
    LET chunks == split_documents(new_docs)
    IN  IF ~embedder_ok \/ chunks = <<>>
        THEN [raised |-> TRUE, error |-> Err("EmbedderError", "embedding model"),
              vectordb |-> NoIndex, index |-> idx]
        ELSE [raised |-> FALSE, error |-> NoErr,
              vectordb |-> [exists |-> TRUE, docs |-> chunks],
              index |-> [exists |-> TRUE, docs |-> chunks]]

\* append_to_index, lines 172-190: split, embed, load or create, add, save
AppendChunks(idx, new_docs, embedder_ok) ==
         LET chunks == split_documents(new_docs)
         IN  IF ~embedder_ok
             THEN [raised |-> TRUE, error |-> Err("EmbedderError", "embedding model"),
                   vectordb |-> NoIndex, index |-> idx]
             ELSE IF chunks = <<>>
             THEN [raised |-> TRUE, error |-> Err("IndexError", "no texts"),
                   vectordb |-> NoIndex, index |-> idx]
             ELSE LET store == IF idx.exists
                               THEN [exists |-> TRUE, docs |-> idx.docs \o chunks]
                               ELSE [exists |-> TRUE, docs |-> chunks]
                  IN  [raised |-> FALSE, error |-> NoErr,
                       vectordb |-> store, index |-> store]

\* append_to_index(new_docs): [raised, error, vectordb, index'], index' being
\* the persisted index after the call.
append_to_index(idx, new_docs, embedder_ok) ==
    IF new_docs = <<>> THEN AppendNothing(idx, embedder_ok)
    ELSE AppendChunks(idx, new_docs, embedder_ok)


(***************************************************************************)
(* Story memory: store_story_to_memory.                                    *)
(***************************************************************************)
\* datetime.now().isoformat() at the n-th tick of the clock
Timestamp(n) == <<"2024-01-01", "T", "12", ":", ToString(n)>>

\* a replacement of the colons alone
SanitizeColonsOnly(timestamp) ==
    [i \in 1..Len(timestamp) |-> IF timestamp[i] = ":" THEN "-" ELSE timestamp[i]]

\* timestamp.replace(':', '-').replace('T', '_')
Sanitize(timestamp) ==
    [i \in 1..Len(timestamp) |->
        IF timestamp[i] = ":" THEN "-"
        ELSE IF timestamp[i] = "T" THEN "_" ELSE timestamp[i]]

\* f"story_{...}.txt"
StoryFilename(timestamp) == <<"story_">> \o Sanitize(timestamp) \o <<".txt">>

\* the file's path relative to DOCS_PATH; MEMORY_STORIES_PATH is
\* os.path.join(DOCS_PATH, "memory_stories")
StoryRelPath(timestamp) == <<MEMORY_STORIES_DIR, "/">> \o StoryFilename(timestamp)

\* os.path.join(MEMORY_STORIES_PATH, filename)
StoryPath(timestamp) == Join(DOCS_PATH, StoryRelPath(timestamp))

\* f"[Time: {timestamp}]\n\n{story_text}\n"
StoryFileContent(story_text, timestamp) ==
    <<"[Time: ">> \o timestamp \o <<"]", "\\n\\n">> \o story_text \o <<"\\n">>

\* store_story_to_memory(story_text, timestamp): the tree after the write
store_story_to_memory(tree, story_text, timestamp) ==
    (StoryRelPath(timestamp) :> StoryFileContent(story_text, timestamp)) @@ tree

(***************************************************************************)
(* Requests.                                                               *)
(***************************************************************************)
DefaultStyle == "Creative Storyteller"
STORY_STYLES ==
    [s \in {"Creative Storyteller", "One Piece Writer"} |->
        IF s = "Creative Storyteller" THEN "You are a creative storyteller"
        ELSE "You are a masterful storyteller"]

\* custom_prompt or STORY_STYLES.get(selected_style, STORY_STYLES[default])
SystemPrompt(selected_style, custom_prompt) ==
    IF custom_prompt # "" THEN custom_prompt
    ELSE IF selected_style \in DOMAIN STORY_STYLES THEN STORY_STYLES[selected_style]
    ELSE STORY_STYLES[DefaultStyle]

\* mode.strip().lower()
Normalize(mode) ==
    CASE mode = "Direct Generation" -> "direct generation"
      [] mode = " direct generation " -> "direct generation"
      [] mode = "RAG with Documents" -> "rag with documents"
      [] OTHER -> mode

\* the requests of the model: [user_input, selected_style, custom_prompt, mode, selected]
Request(selected_style, custom_prompt, mode, selected) ==
    [user_input |-> "Write a story", selected_style |-> selected_style,
     custom_prompt |-> custom_prompt, mode |-> mode, selected |-> selected]
Requests ==
    {Request("One Piece Writer", "", "Direct Generation", <<>>),
     Request("One Piece Writer", "", "RAG with Documents", <<>>),
     Request("Mystery", "", "RAG with Documents", <<FileA>>),
     Request("Mystery", "Be brief.", "RAG with Documents", <<FileA, FileB>>)}
StoryTexts == {<<"A tale.">>}
ProbeOutcomes == {"ok", "unreachable", "timeout", "status", "no_model"}
LoaderSelections == {NoSelection, ListOf(<<>>), ListOf(<<FileA>>)}

NoOut == [op |-> "none", status |-> "none", error |-> NoErr, cause |-> NoErr]
NoHashDb == [exists |-> FALSE, map |-> NoEntries]
NoPre == [fs |-> NoEntries, hash_db |-> NoHashDb, index |-> NoIndex,
          stories |-> <<>>, selected |-> NoSelection, docs |-> <<>>,
          hashes |-> NoEntries]
NoReq == [op |-> "none"]
NoCalls == <<>>

Snapshot(selected, new_docs, new_hashes) ==
    [fs |-> fs, hash_db |-> hash_db, index |-> index, stories |-> stories,
     selected |-> selected, docs |-> new_docs, hashes |-> new_hashes]

\* What the loader finds in the fingerprint store for a file it examines.
ExamStatus(db, rel_path, file_hash) ==
    IF rel_path \notin DOMAIN db THEN "absent"
    ELSE IF db[rel_path] # file_hash THEN "differs" ELSE "same"

\* The examination record of every file a load_documents run loads.
Examination(tree, file, path, selected_files) ==
    {[source |-> Join(path, p),
      status |-> ExamStatus(load_hash_db(file), p, hash_file(tree[p]))] :
        p \in {q \in DOMAIN tree : Loads(tree, load_hash_db(file), selected_files, q)}}

\* The log entries of the files that own the chunks added to the index.
EmbedLog(chunks, exam) == {e \in exam : \E i \in DOMAIN chunks : chunks[i].source = e.source}

Fits(idx, new_docs, extra) ==
    Len(idx.docs) + Len(split_documents(new_docs)) + extra <= MaxIndex

Init ==
    /\ fs = NoEntries
    /\ hash_db = NoHashDb
    /\ index = NoIndex
    /\ stories = <<>>
    /\ pc = "idle"
    /\ req = NoReq
    /\ docs = <<>>
    /\ vectordb = NoIndex
    /\ story = <<>>
    /\ retrieved = <<>>
    /\ out = NoOut
    /\ pre = NoPre
    /\ net = <<>>
    /\ examined = {}
    /\ embedded = {}
    /\ edits = 0
    /\ probe = "none"
    /\ calls = NoCalls
    /\ issued = <<>>

\* the length of the history of the files and the stories table
History == edits + Len(stories)

\* a script or a request is over: its locals and its outcome are gone
Forget ==
    /\ req' = NoReq
    /\ docs' = <<>>
    /\ story' = <<>>
    /\ retrieved' = <<>>
    /\ out' = NoOut
    /\ pre' = NoPre
    /\ net' = <<>>
    /\ examined' = {}
    /\ probe' = "none"

(***************************************************************************)
(* The user edits the documents tree between the requests and the scripts. *)
(***************************************************************************)
WriteFile(rel_path, bytes) ==
    /\ pc = "idle"
    /\ History < MaxHistory
    /\ IF rel_path \in DOMAIN fs THEN fs[rel_path] # bytes ELSE TRUE
    /\ fs' = (rel_path :> bytes) @@ fs
    /\ edits' = edits + 1
    /\ vectordb' = NoIndex
    /\ Forget
    /\ UNCHANGED <<hash_db, index, stories, pc, embedded, calls, issued>>

DeleteFile(rel_path) ==
    /\ pc = "idle"
    /\ History < MaxHistory
    /\ rel_path \in DOMAIN fs
    /\ fs' = [p \in DOMAIN fs \ {rel_path} |-> fs[p]]
    /\ edits' = edits + 1
    /\ vectordb' = NoIndex
    /\ Forget
    /\ UNCHANGED <<hash_db, index, stories, pc, embedded, calls, issued>>

(***************************************************************************)
(* Calls of the module's functions from outside a request (the tests).     *)
(***************************************************************************)
LoadDocumentsCall(selected_files) ==
    LET r == load_documents(fs, hash_db, DOCS_PATH, selected_files)
    IN  /\ pc = "idle"
        /\ Fits(index, r.docs, 0)
        /\ hash_db' = r.hash_db
        /\ docs' = r.docs
        /\ examined' = IF r.raised THEN {}
                       ELSE Examination(fs, hash_db, DOCS_PATH, selected_files)
        /\ out' = [op |-> "load_documents",
                   status |-> IF r.raised THEN "raised" ELSE "ok",
                   error |-> IF r.raised THEN Err("LoaderError", "malformed file") ELSE NoErr,
                   cause |-> IF r.raised THEN Err("LoaderError", "malformed file") ELSE NoErr]
        /\ pre' = Snapshot(selected_files, <<>>, NoEntries)
        /\ vectordb' = NoIndex
        /\ UNCHANGED <<fs, index, stories, pc, req, story, retrieved,
                       net, embedded, edits, probe, calls, issued>>

AppendToIndexCall(embedder_ok) ==
    LET r == append_to_index(index, docs, embedder_ok)
    IN  /\ pc = "idle"
        /\ index' = r.index
        /\ vectordb' = r.vectordb
        /\ embedded' = IF r.raised THEN embedded
                       ELSE embedded \cup EmbedLog(split_documents(docs), examined)
        /\ docs' = <<>>
        /\ out' = [op |-> "append_to_index",
                   status |-> IF r.raised THEN "raised" ELSE "ok",
                   error |-> r.error, cause |-> r.error]
        /\ pre' = Snapshot(NoSelection, docs, NoEntries)
        /\ examined' = {}
        /\ UNCHANGED <<fs, hash_db, stories, pc, req, story, retrieved, net, edits, probe, calls, issued>>


(***************************************************************************)
(* generate_story and the request handler story_generator_ui.              *)
(***************************************************************************)
\* generate_story raises error to its caller; cause is the error first raised
Raise(error, cause) ==
    /\ pc' = "raised"
    /\ out' = [op |-> "generate_story", status |-> "raised", error |-> error, cause |-> cause]

\* a direct branch that re-raises what it caught
DirectErrorReraise(cause) == cause

\* the except clause of the direct branch, lines 367-369
DirectError(cause) == Err("ValueError", "Failed to generate story: " \o cause.msg)

\* what the probe of load_llm raises first, lines 232-240: requests.get
\* raises a RequestException when the server is unreachable or times out;
\* the tests of the status and of the models list raise ConnectionError
ProbeCause(outcome) ==
    IF outcome \in {"unreachable", "timeout"} THEN Err("RequestException", outcome)
    ELSE Err("ConnectionError", outcome)

\* a probe that lets the error of requests.get through
ProbeErrorUnconverted(outcome) == ProbeCause(outcome)

\* what load_llm raises, lines 243-246 and 263-265
ProbeError(outcome) ==
    IF ProbeCause(outcome).kind = "RequestException"
    THEN Err("ConnectionError", "Failed to connect to local LLM server: " \o outcome)
    ELSE ProbeCause(outcome)

\* The stories table of schema.sql: id is the key the table gives a new
\* row, one more than the largest id in the table; created_at is the time
\* of the insert, later for a later insert.
NextId(rows) ==
    IF rows = <<>> THEN 1
    ELSE 1 + CHOOSE n \in {rows[i].id : i \in DOMAIN rows} :
                 \A i \in DOMAIN rows : rows[i].id <= n
CreatedAt(rows) == Len(rows) + 1

\* db_manager.add_story(prompt, response, system_prompt, style, mode): the
\* table after the INSERT; cursor.lastrowid is the id of its last row
add_story(rows, prompt, response, system_prompt, style, mode) ==
    Append(rows, [id |-> NextId(rows), prompt |-> prompt, response |-> response,
                  system_prompt |-> system_prompt, style |-> style,
                  created_at |-> CreatedAt(rows), mode |-> mode,
                  memory_added |-> FALSE])

\* Python's None, where a row is expected
NULL == [none |-> TRUE]

\* a lookup that answers the first row of the table
GetStoryFirst(rows, story_id) == IF rows = <<>> THEN NULL ELSE rows[1]

\* db_manager.get_story(story_id): SELECT * FROM stories WHERE id = ?, fetchone()
get_story(rows, story_id) ==
    IF \E i \in DOMAIN rows : rows[i].id = story_id
    THEN rows[CHOOSE i \in DOMAIN rows : rows[i].id = story_id]
    ELSE NULL

\* ORDER BY created_at DESC
RECURSIVE OrderByCreatedAtDesc(_)
OrderByCreatedAtDesc(S) ==
    IF S = {} THEN <<>>
    ELSE LET r == CHOOSE x \in S : \A y \in S : y.created_at <= x.created_at
         IN  <<r>> \o OrderByCreatedAtDesc(S \ {r})

\* LIMIT limit OFFSET offset
LimitOffset(rows, limit, offset) ==
    SubSeq(rows, offset + 1,
           IF offset + limit < Len(rows) THEN offset + limit ELSE Len(rows))

\* a listing in the order of the inserts
GetAllStoriesOldestFirst(rows, limit, offset) == LimitOffset(rows, limit, offset)

\* db_manager.get_all_stories(limit, offset)
get_all_stories(rows, limit, offset) ==
    LimitOffset(OrderByCreatedAtDesc(Range(rows)), limit, offset)

\* a retriever without the bound
RetrieveAll(handle) == handle.docs

\* the retriever: the k nearest chunks of the handle, in the backend's order
Retrieve(handle) ==
    LET n == IF Len(handle.docs) < k THEN Len(handle.docs) ELSE k
        near == CHOOSE S \in SUBSET DOMAIN handle.docs : Cardinality(S) = n
        order == WalkOrder(near)
    IN  [i \in 1..n |-> handle.docs[order[i]]]

\* the clock has moved on since the last story file was written
Now == 1 + Cardinality({p \in DOMAIN fs : Head(p) = MEMORY_STORIES_DIR})

\* lines 321-324: the call starts
GenerateStory(r) ==
    /\ pc = "idle"
    /\ History < MaxHistory
    /\ Fits(index, load_documents(fs, hash_db, DOCS_PATH, ListOf(r.selected)).docs, 1)
    /\ req' = [op |-> "generate_story", user_input |-> r.user_input,
               selected_style |-> r.selected_style, custom_prompt |-> r.custom_prompt,
               mode |-> r.mode, selected |-> r.selected,
               timestamp |-> Timestamp(Now),
               system_prompt |-> SystemPrompt(r.selected_style, r.custom_prompt)]
    /\ pc' = "load_llm"
    /\ net' = <<>>
    /\ probe' = "none"
    /\ docs' = <<>>
    /\ vectordb' = NoIndex
    /\ story' = <<>>
    /\ retrieved' = <<>>
    /\ out' = NoOut
    /\ examined' = {}
    /\ pre' = Snapshot(ListOf(r.selected), <<>>, NoEntries)
    /\ UNCHANGED <<fs, hash_db, index, stories, embedded, edits, calls, issued>>

\* line 327 and load_llm: the models-list probe, then the mode test
LoadLlm(outcome) ==
    /\ pc = "load_llm"
    /\ net' = Append(net, "GET /models")
    /\ probe' = outcome
    /\ IF outcome = "ok"
       THEN /\ pc' = IF Normalize(req.mode) = "direct generation"
                     THEN "direct_invoke" ELSE "rag_check"
            /\ out' = out
       ELSE Raise(ProbeError(outcome), ProbeCause(outcome))
    /\ UNCHANGED <<fs, hash_db, index, stories, req, docs, vectordb, story,
                   retrieved, pre, examined, embedded, edits, calls, issued>>

\* lines 337-350: llm.invoke(messages)
DirectInvoke(ok, text) ==
    /\ pc = "direct_invoke"
    /\ net' = Append(net, "POST /chat/completions")
    /\ IF ok
       THEN /\ story' = text
            /\ pc' = "direct_add_story"
            /\ out' = out
       ELSE /\ story' = story
            /\ Raise(DirectError(Err("APIError", "chat")), Err("APIError", "chat"))
    /\ UNCHANGED <<fs, hash_db, index, stories, req, docs, vectordb, retrieved,
                   pre, examined, embedded, edits, probe, calls, issued>>

\* lines 355-361
DirectAddStory(ok) ==
    /\ pc = "direct_add_story"
    /\ IF ok
       THEN /\ stories' = add_story(stories, req.user_input, story, req.system_prompt,
                                     req.selected_style, Normalize(req.mode))
            /\ pc' = "direct_store"
            /\ out' = out
       ELSE /\ stories' = stories
            /\ Raise(DirectError(Err("sqlite3.Error", "insert")), Err("sqlite3.Error", "insert"))
    /\ UNCHANGED <<fs, hash_db, index, req, docs, vectordb, story, retrieved,
                   pre, net, examined, embedded, edits, probe, calls, issued>>

\* a return of the prompt in the place of the story
DirectResultEcho == [story |-> <<req.user_input>>, sources |-> <<>>, timestamp |-> <<>>]

\* line 366: return story, [], timestamp
DirectResult == [story |-> story, sources |-> <<>>, timestamp |-> req.timestamp]

\* line 408: return story, sources, timestamp; the chain names its sources
\* among those of the chunks it was given
RagResult ==
    [story |-> story, sources |-> [i \in DOMAIN retrieved |-> retrieved[i].source],
     timestamp |-> req.timestamp]

\* lines 364-366
DirectStore(ok) ==
    /\ pc = "direct_store"
    /\ IF ok
       THEN /\ fs' = store_story_to_memory(fs, story, req.timestamp)
            /\ pc' = "returned"
            /\ out' = [op |-> "generate_story", status |-> "ok",
                       error |-> NoErr, cause |-> NoErr, result |-> DirectResult]
       ELSE /\ fs' = fs
            /\ Raise(DirectError(Err("OSError", "write")), Err("OSError", "write"))
    /\ UNCHANGED <<hash_db, index, stories, req, docs, vectordb, story, retrieved,
                   pre, net, examined, embedded, edits, probe, calls, issued>>

\* a retrieval branch without the test of the selection
RagCheckMissing ==
    /\ pc = "rag_check"
    /\ pc' = "rag_load"
    /\ UNCHANGED <<fs, hash_db, index, stories, req, docs, vectordb, story,
                   retrieved, out, pre, net, examined, embedded, edits, probe, calls, issued>>

\* lines 373-375
RagCheck ==
    /\ pc = "rag_check"
    /\ IF req.selected = <<>>
       THEN Raise(Err("ValueError", "No documents selected for RAG mode"),
                  Err("ValueError", "No documents selected for RAG mode"))
       ELSE /\ pc' = "rag_load"
            /\ out' = out
    /\ UNCHANGED <<fs, hash_db, index, stories, req, docs, vectordb, story,
                   retrieved, pre, net, examined, embedded, edits, probe, calls, issued>>

\* a retrieval branch that goes on with no document
RagLoadUnchecked ==
    LET r == load_documents(fs, hash_db, DOCS_PATH, ListOf(req.selected))
    IN  /\ pc = "rag_load"
        /\ hash_db' = r.hash_db
        /\ docs' = r.docs
        /\ examined' = IF r.raised THEN {}
                       ELSE Examination(fs, hash_db, DOCS_PATH, ListOf(req.selected))
        /\ IF r.raised
           THEN Raise(Err("LoaderError", "malformed file"), Err("LoaderError", "malformed file"))
           ELSE /\ pc' = "rag_append"
                /\ out' = out
        /\ UNCHANGED <<fs, index, stories, req, vectordb, story, retrieved, pre,
                       net, embedded, edits, probe, calls, issued>>

\* lines 377-380
RagLoad ==
    LET r == load_documents(fs, hash_db, DOCS_PATH, ListOf(req.selected))
    IN  /\ pc = "rag_load"
        /\ hash_db' = r.hash_db
        /\ docs' = r.docs
        /\ examined' = IF r.raised THEN {}
                       ELSE Examination(fs, hash_db, DOCS_PATH, ListOf(req.selected))
        /\ IF r.raised
           THEN Raise(Err("LoaderError", "malformed file"), Err("LoaderError", "malformed file"))
           ELSE IF r.docs = <<>>
           THEN Raise(Err("ValueError", "No documents available for RAG mode"),
                      Err("ValueError", "No documents available for RAG mode"))
           ELSE /\ pc' = "rag_append"
                /\ out' = out
        /\ UNCHANGED <<fs, index, stories, req, vectordb, story, retrieved, pre,
                       net, embedded, edits, probe, calls, issued>>

\* line 382
RagAppend(embedder_ok) ==
    LET r == append_to_index(index, docs, embedder_ok)
    IN  /\ pc = "rag_append"
        /\ index' = r.index
        /\ vectordb' = r.vectordb
        /\ embedded' = IF r.raised THEN embedded
                       ELSE embedded \cup EmbedLog(split_documents(docs), examined)
        /\ IF r.raised
           THEN Raise(r.error, r.error)
           ELSE /\ pc' = "rag_chain"
                /\ out' = out
        /\ UNCHANGED <<fs, hash_db, stories, req, docs, story, retrieved, pre,
                       net, examined, edits, probe, calls, issued>>

\* lines 384-394: retrieval, then the chat completion over the retrieved chunks
RagChain(ok, text) ==
    /\ pc = "rag_chain"
    /\ retrieved' = Retrieve(vectordb)
    /\ net' = Append(net, "POST /chat/completions")
    /\ IF ok
       THEN /\ story' = text
            /\ pc' = "rag_add_story"
            /\ out' = out
       ELSE /\ story' = story
            /\ Raise(Err("APIError", "chat"), Err("APIError", "chat"))
    /\ UNCHANGED <<fs, hash_db, index, stories, req, docs, vectordb, pre,
                   examined, embedded, edits, probe, calls, issued>>

\* lines 397-403
RagAddStory(ok) ==
    /\ pc = "rag_add_story"
    /\ IF ok
       THEN /\ stories' = add_story(stories, req.user_input, story, req.system_prompt,
                                     req.selected_style, Normalize(req.mode))
            /\ pc' = "rag_store"
            /\ out' = out
       ELSE /\ stories' = stories
            /\ Raise(Err("sqlite3.Error", "insert"), Err("sqlite3.Error", "insert"))
    /\ UNCHANGED <<fs, hash_db, index, req, docs, vectordb, story, retrieved,
                   pre, net, examined, embedded, edits, probe, calls, issued>>

\* lines 406-408
RagStore(ok) ==
    /\ pc = "rag_store"
    /\ IF ok
       THEN /\ fs' = store_story_to_memory(fs, story, req.timestamp)
            /\ pc' = "returned"
            /\ out' = [op |-> "generate_story", status |-> "ok",
                       error |-> NoErr, cause |-> NoErr, result |-> RagResult]
       ELSE /\ fs' = fs
            /\ Raise(Err("OSError", "write"), Err("OSError", "write"))
    /\ UNCHANGED <<hash_db, index, stories, req, docs, vectordb, story, retrieved,
                   pre, net, examined, embedded, edits, probe, calls, issued>>

\* main.py lines 150-153: the add-to-memory step after a story was returned;
\* line 163 reports what it raises
UiAfterStory(add_to_memory, write_ok, embedder_ok) ==
    LET story_path == StoryPath(req.timestamp)
        story_doc == Document(story, story_path)
        r == append_to_index(index, <<story_doc>>, embedder_ok)
        status == ExamStatus(load_hash_db(hash_db), StoryRelPath(req.timestamp),
                             hash_file(StoryFileContent(story, req.timestamp)))
    IN  /\ pc = "returned"
        /\ pc' = "idle"
        /\ vectordb' = NoIndex
        /\ IF ~add_to_memory
           THEN UNCHANGED <<fs, index, embedded>>
           ELSE IF ~write_ok
           THEN UNCHANGED <<fs, index, embedded>>
           ELSE /\ fs' = store_story_to_memory(fs, story, req.timestamp)
                /\ index' = r.index
                /\ embedded' = IF r.raised THEN embedded
                               ELSE embedded \cup {[source |-> story_path, status |-> status]}
        /\ Forget
        /\ UNCHANGED <<hash_db, stories, edits, calls, issued>>

\* main.py lines 163-164: st.error(str(e))
UiError ==
    /\ pc = "raised"
    /\ pc' = "idle"
    /\ Forget
    /\ vectordb' = NoIndex
    /\ UNCHANGED <<fs, hash_db, index, stories, embedded, edits, calls, issued>>

Next ==
    \/ \E p \in UserFiles : \E c \in ContentsOf(p) : WriteFile(p, c)
    \/ \E p \in UserFiles : DeleteFile(p)
    \/ \E sel \in LoaderSelections : LoadDocumentsCall(sel)
    \/ \E ok \in BOOLEAN : AppendToIndexCall(ok)
    \/ \E r \in Requests : GenerateStory(r)
    \/ \E o \in ProbeOutcomes : LoadLlm(o)
    \/ \E ok \in BOOLEAN, t \in StoryTexts : DirectInvoke(ok, t)
    \/ \E ok \in BOOLEAN : DirectAddStory(ok)
    \/ \E ok \in BOOLEAN : DirectStore(ok)
    \/ RagCheck
    \/ RagLoad
    \/ \E ok \in BOOLEAN : RagAppend(ok)
    \/ \E ok \in BOOLEAN, t \in StoryTexts : RagChain(ok, t)
    \/ \E ok \in BOOLEAN : RagAddStory(ok)
    \/ \E ok \in BOOLEAN : RagStore(ok)
    \/ \E mem \in BOOLEAN, w \in BOOLEAN, e \in BOOLEAN : UiAfterStory(mem, w, e)
    \/ UiError

Spec == Init /\ [][Next]_vars

(***************************************************************************)
(* The fingerprint store on its own: update_hash_db applied to the stores  *)
(* and the batches of new entries below.                                   *)
(***************************************************************************)
Digests == {hash_file(<<>>), hash_file(Hello), hash_file(TwoPages)}
HashMaps ==
    {m \in UNION {[D -> Digests] : D \in SUBSET {FileA, FileB}} : TRUE}
HashDbFiles == {NoHashDb} \cup {[exists |-> TRUE, map |-> m] : m \in HashMaps}

InitHashDb ==
    /\ hash_db \in HashDbFiles
    /\ fs = NoEntries
    /\ index = NoIndex
    /\ stories = <<>>
    /\ pc = "idle"
    /\ req = NoReq
    /\ docs = <<>>
    /\ vectordb = NoIndex
    /\ story = <<>>
    /\ retrieved = <<>>
    /\ out = NoOut
    /\ pre = NoPre
    /\ net = <<>>
    /\ examined = {}
    /\ embedded = {}
    /\ edits = 0
    /\ probe = "none"
    /\ calls = NoCalls
    /\ issued = <<>>

UpdateHashDbCall(new_hashes) ==
    /\ pc = "idle"
    /\ hash_db' = update_hash_db(hash_db, new_hashes)
    /\ out' = [op |-> "update_hash_db", status |-> "ok", error |-> NoErr, cause |-> NoErr]
    /\ pre' = Snapshot(NoSelection, <<>>, new_hashes)
    /\ UNCHANGED <<fs, index, stories, pc, req, docs, vectordb, story, retrieved,
                   net, examined, embedded, edits, probe, calls, issued>>

NextHashDb == \E new_hashes \in HashMaps : UpdateHashDbCall(new_hashes)

SpecHashDb == InitHashDb /\ [][NextHashDb]_vars

(***************************************************************************)
(* The story memory on its own: store_story_to_memory applied to the story *)
(* texts and timestamps below, over a tree that may hold a story file.     *)
(***************************************************************************)
StoryTimestamps ==
    {<<"2024-01-01", "T", "12", ":", "00", ":", "00">>, <<"T", ":", "T">>, <<"now">>}
StoryMemoryTexts == {<<>>, <<"A tale.">>, <<"Time", ":", "T", "\\n", "end">>}
StoryMemoryTrees ==
    {NoEntries, FileA :> Hello}
        \cup {StoryRelPath(t) :> <<"old">> : t \in StoryTimestamps}

InitStoryMemory ==
    /\ fs \in StoryMemoryTrees
    /\ hash_db = NoHashDb
    /\ index = NoIndex
    /\ stories = <<>>
    /\ pc = "idle"
    /\ req = NoReq
    /\ docs = <<>>
    /\ vectordb = NoIndex
    /\ story = <<>>
    /\ retrieved = <<>>
    /\ out = NoOut
    /\ pre = NoPre
    /\ net = <<>>
    /\ examined = {}
    /\ embedded = {}
    /\ edits = 0
    /\ probe = "none"
    /\ calls = NoCalls
    /\ issued = <<>>

\* store_story_to_memory(story_text, timestamp) returns path
StoreStoryCall(story_text, timestamp) ==
    /\ pc = "idle"
    /\ fs' = store_story_to_memory(fs, story_text, timestamp)
    /\ req' = [op |-> "store_story_to_memory", story_text |-> story_text,
               timestamp |-> timestamp]
    /\ out' = [op |-> "store_story_to_memory", status |-> "ok", error |-> NoErr,
               cause |-> NoErr, path |-> StoryPath(timestamp)]
    /\ pre' = Snapshot(NoSelection, <<>>, NoEntries)
    /\ UNCHANGED <<hash_db, index, stories, pc, docs, vectordb, story, retrieved,
                   net, examined, embedded, edits, probe, calls, issued>>

NextStoryMemory ==
    \E story_text \in StoryMemoryTexts, timestamp \in StoryTimestamps :
        StoreStoryCall(story_text, timestamp)

SpecStoryMemory == InitStoryMemory /\ [][NextStoryMemory]_vars

(***************************************************************************)
(* Two append_to_index invocations side by side on the shared index.  The  *)
(* code takes no lock, so the lines of one invocation interleave with the  *)
(* lines of the other; a load and a save of the index are one step each.   *)
(* calls[c] = [pc, new_docs, chunks, vectordb] are the locals of call c.   *)
(***************************************************************************)
Callers == {1, 2}

\* the documents each call is given
CallDocs(c) ==
    IF c = 1
    THEN {<<Document(Hello, Join(DOCS_PATH, FileA))>>,
          <<Document(<<"p1">>, Join(DOCS_PATH, FileB)),
            Document(<<"p2">>, Join(DOCS_PATH, FileB))>>}
    ELSE {<<Document(<<"note">>, Join(DOCS_PATH, FileN))>>,
          <<Document(<<>>, Join(DOCS_PATH, FileN))>>}

PriorIndexes ==
    {NoIndex, [exists |-> TRUE, docs |-> <<Document(<<"old">>, Join(DOCS_PATH, FileA))>>]}

InitConcurrent ==
    /\ index \in PriorIndexes
    /\ calls \in {f \in [Callers -> UNION {{[pc |-> "start", new_docs |-> d, chunks |-> <<>>,
                                              vectordb |-> NoIndex] : d \in CallDocs(c)} :
                                            c \in Callers}] :
                    \A c \in Callers : f[c].new_docs \in CallDocs(c)}
    /\ pre = [NoPre EXCEPT !.index = index]
    /\ fs = NoEntries
    /\ hash_db = NoHashDb
    /\ stories = <<>>
    /\ pc = "idle"
    /\ req = NoReq
    /\ docs = <<>>
    /\ vectordb = NoIndex
    /\ story = <<>>
    /\ retrieved = <<>>
    /\ out = NoOut
    /\ net = <<>>
    /\ examined = {}
    /\ embedded = {}
    /\ edits = 0
    /\ probe = "none"
    /\ issued = <<>>

\* an add that forgets what the store held
AddDocumentsFresh(store, chunks) == [exists |-> TRUE, docs |-> chunks]

\* vectordb.add_documents(chunks), line 183
AddDocuments(store, chunks) == [exists |-> TRUE, docs |-> store.docs \o chunks]

\* FAISS.from_documents(chunks, embedder), line 185
FromDocuments(chunks) == [exists |-> TRUE, docs |-> chunks]

CallStep(c, to, chunks, store) ==
    calls' = [calls EXCEPT ![c] = [pc |-> to, new_docs |-> calls[c].new_docs,
                                   chunks |-> chunks, vectordb |-> store]]

ConcurrentFrame ==
    UNCHANGED <<fs, hash_db, stories, pc, req, docs, vectordb, story, retrieved,
                out, pre, net, examined, embedded, edits, probe, issued>>

\* lines 173-180: split, then load the embedding model
CallSplit(c, embedder_ok) ==
    /\ calls[c].pc = "start"
    /\ IF embedder_ok
       THEN CallStep(c, "exists", split_documents(calls[c].new_docs), NoIndex)
       ELSE CallStep(c, "raised", split_documents(calls[c].new_docs), NoIndex)
    /\ UNCHANGED index
    /\ ConcurrentFrame

\* line 181: os.path.exists(INDEX_PATH)
CallExists(c) ==
    /\ calls[c].pc = "exists"
    /\ CallStep(c, IF index.exists THEN "load" ELSE "create", calls[c].chunks, NoIndex)
    /\ UNCHANGED index
    /\ ConcurrentFrame

\* lines 182-183: FAISS.load_local, then add_documents on the loaded store
CallLoadAdd(c) ==
    /\ calls[c].pc = "load"
    /\ IF calls[c].chunks = <<>>
       THEN CallStep(c, "raised", calls[c].chunks, NoIndex)
       ELSE CallStep(c, "save", calls[c].chunks, AddDocuments(index, calls[c].chunks))
    /\ UNCHANGED index
    /\ ConcurrentFrame

\* line 185: a new store from the chunks alone
CallCreate(c) ==
    /\ calls[c].pc = "create"
    /\ IF calls[c].chunks = <<>>
       THEN CallStep(c, "raised", calls[c].chunks, NoIndex)
       ELSE CallStep(c, "save", calls[c].chunks, FromDocuments(calls[c].chunks))
    /\ UNCHANGED index
    /\ ConcurrentFrame

\* lines 186-187: save_local, return vectordb
CallSave(c) ==
    /\ calls[c].pc = "save"
    /\ index' = calls[c].vectordb
    /\ CallStep(c, "returned", calls[c].chunks, calls[c].vectordb)
    /\ ConcurrentFrame

NextConcurrent ==
    \E c \in Callers :
        \/ \E embedder_ok \in BOOLEAN : CallSplit(c, embedder_ok)
        \/ CallExists(c)
        \/ CallLoadAdd(c)
        \/ CallCreate(c)
        \/ CallSave(c)

SpecConcurrent == InitConcurrent /\ [][NextConcurrent]_vars

(***************************************************************************)
(* The database manager on its own: add_story, get_story and               *)
(* get_all_stories called one after another, as the database tests do.     *)
(***************************************************************************)
DbPrompts == {"Write a story about a brave knight", "Write a story"}
DbModes == {"Direct Generation", "RAG with Documents"}
DbLimits == {1, 2, 100}
DbOffsets == {0, 1}

\* story_id = add_story(prompt, response, system_prompt, style, mode)
AddStoryCall(prompt, response, system_prompt, style, mode) ==
    /\ pc = "idle"
    /\ History < MaxHistory
    /\ stories' = add_story(stories, prompt, response, system_prompt, style, mode)
    /\ req' = [op |-> "add_story", prompt |-> prompt, response |-> response,
               system_prompt |-> system_prompt, style |-> style, mode |-> mode]
    /\ out' = [op |-> "add_story", status |-> "ok", error |-> NoErr, cause |-> NoErr,
               id |-> Last(stories').id]
    /\ issued' = Append(issued, [id |-> Last(stories').id, prompt |-> prompt,
                                 response |-> response, style |-> style, mode |-> mode])
    /\ pre' = Snapshot(NoSelection, <<>>, NoEntries)
    /\ UNCHANGED <<fs, hash_db, index, pc, docs, vectordb, story, retrieved,
                   net, examined, embedded, edits, probe, calls>>

\* story = get_story(story_id)
GetStoryCall(story_id) ==
    /\ pc = "idle"
    /\ req' = [op |-> "get_story", story_id |-> story_id]
    /\ out' = [op |-> "get_story", status |-> "ok", error |-> NoErr, cause |-> NoErr,
               row |-> get_story(stories, story_id)]
    /\ pre' = Snapshot(NoSelection, <<>>, NoEntries)
    /\ UNCHANGED <<fs, hash_db, index, stories, pc, docs, vectordb, story, retrieved,
                   net, examined, embedded, edits, probe, calls, issued>>

\* rows = get_all_stories(limit, offset)
GetAllStoriesCall(limit, offset) ==
    /\ pc = "idle"
    /\ req' = [op |-> "get_all_stories", limit |-> limit, offset |-> offset]
    /\ out' = [op |-> "get_all_stories", status |-> "ok", error |-> NoErr,
               cause |-> NoErr, rows |-> get_all_stories(stories, limit, offset)]
    /\ pre' = Snapshot(NoSelection, <<>>, NoEntries)
    /\ UNCHANGED <<fs, hash_db, index, stories, pc, docs, vectordb, story, retrieved,
                   net, examined, embedded, edits, probe, calls, issued>>

NextDb ==
    \/ \E prompt \in DbPrompts, mode \in DbModes :
            AddStoryCall(prompt, "Once upon a time", STORY_STYLES[DefaultStyle],
                         DefaultStyle, mode)
    \/ \E story_id \in 0..(MaxHistory + 1) : GetStoryCall(story_id)
    \/ \E limit \in DbLimits, offset \in DbOffsets : GetAllStoriesCall(limit, offset)

SpecDb == Init /\ [][NextDb]_vars

(***************************************************************************)
(* Properties.                                                             *)
(***************************************************************************)
IsRag == req.op = "generate_story" /\ Normalize(req.mode) # "direct generation"
IsDirect == req.op = "generate_story" /\ Normalize(req.mode) = "direct generation"

\* a load_documents call has just returned docs: called on its own, or by a
\* retrieval request
LoaderReturned ==
    \/ out.op = "load_documents" /\ out.status = "ok"
    \/ pc = "rag_append"
    \/ pc = "raised" /\ out.error.msg = "No documents available for RAG mode"

\* the fingerprints the loader saw when it started
SeenDb == load_hash_db(pre.hash_db)

DocsFrom(source) == {i \in DOMAIN docs : docs[i].source = source}

HashMatches(p) ==
    /\ p \in DOMAIN pre.fs
    /\ Supported(p)
    /\ p \in DOMAIN SeenDb
    /\ SeenDb[p] = hash_file(pre.fs[p])

NeverSeen(p) ==
    /\ p \in DOMAIN pre.fs
    /\ Supported(p)
    /\ p \notin DOMAIN SeenDb
    /\ Selected(p, pre.selected)

\* C1: a load_documents run returns no TextUnit from a supported file whose
\* content hash equals the hash the fingerprint store holds for its
\* relative path.
C1_UnchangedFileYieldsNothing ==
    LoaderReturned =>
        \A p \in DOMAIN pre.fs : HashMatches(p) => DocsFrom(Join(DOCS_PATH, p)) = {}

C1_Witness ==
    /\ LoaderReturned
    /\ \E p \in DOMAIN pre.fs : HashMatches(p) /\ Selected(p, pre.selected)
    /\ docs # <<>>

\* C2 as stated: after a load_documents run, every supported, selected file
\* that had no fingerprint has at least one TextUnit tagged with its
\* relative path, and the store maps that path to the file's hash.
C2_TaggedWithRelativePath ==
    LoaderReturned =>
        \A p \in DOMAIN pre.fs : NeverSeen(p) =>
            /\ DocsFrom(p) # {}
            /\ p \in DOMAIN load_hash_db(hash_db)
            /\ load_hash_db(hash_db)[p] = hash_file(pre.fs[p])

\* C2 amended: the TextUnits are tagged with the path the loader opened, the
\* base path joined with the relative path; the store maps the relative
\* path to the file's hash.
C2_TaggedWithFullPath ==
    LoaderReturned =>
        \A p \in DOMAIN pre.fs : NeverSeen(p) =>
            /\ DocsFrom(Join(DOCS_PATH, p)) # {}
            /\ DocsFrom(p) = {}
            /\ p \in DOMAIN load_hash_db(hash_db)
            /\ load_hash_db(hash_db)[p] = hash_file(pre.fs[p])

C2_Witness ==
    /\ LoaderReturned
    /\ \E p \in DOMAIN pre.fs : NeverSeen(p) /\ Cardinality(DocsFrom(Join(DOCS_PATH, p))) = 2

\* C3: every file whose chunks were added to the index had no fingerprint,
\* or a fingerprint other than its content hash, when it was examined.
C3_EmbeddedOnlyIfNewOrChanged ==
    \A e \in embedded : e.status \in {"absent", "differs"}

C3_Witness ==
    /\ \E e \in embedded : e.status = "differs"
    /\ \E p \in DOMAIN fs : Supported(p) /\ Unchanged(load_hash_db(hash_db), p, hash_file(fs[p]))

RagWithNothingSelected == IsRag /\ req.selected = <<>>

\* C4 as stated: a retrieval request with an empty selection raises a
\* validation error before any request is sent to the model server.
C4_ValidationBeforeNetwork ==
    (RagWithNothingSelected /\ pc = "raised") =>
        out.error.kind = "ValueError" /\ net = <<>>

\* C4 amended: a retrieval request with an empty selection sends the
\* models-list probe and nothing else; it raises the validation error when
\* the probe succeeds and a connection error otherwise, and never gets to
\* the loader or to a chat completion.
C4_ValidationAfterProbe ==
    RagWithNothingSelected =>
        /\ pc \in {"load_llm", "rag_check", "raised"}
        /\ pc = "load_llm" => net = <<>>
        /\ pc \in {"rag_check", "raised"} => net = <<"GET /models">>
        /\ pc = "raised" =>
              \/ out.error = Err("ValueError", "No documents selected for RAG mode")
              \/ out.error.kind = "ConnectionError"
        /\ hash_db = pre.hash_db /\ index = pre.index

C4_Witness ==
    /\ RagWithNothingSelected
    /\ pc = "raised"
    /\ out.error = Err("ValueError", "No documents selected for RAG mode")
    /\ net = <<"GET /models">>

AppendedNothing == out.op = "append_to_index" /\ pre.docs = <<>>

\* C5: append_to_index([]) over a persisted index leaves the persisted
\* index as it was, and the handle it returns holds what is persisted; it
\* fails only when the embedding model cannot be loaded.
C5_AppendNothingIsIdempotent ==
    (AppendedNothing /\ pre.index.exists) =>
        /\ index = pre.index
        /\ out.status = "ok" => vectordb = index
        /\ out.status = "raised" => out.error.kind = "EmbedderError"

C5_Witness ==
    /\ AppendedNothing
    /\ pre.index.exists
    /\ out.status = "ok"
    /\ Len(vectordb.docs) > 1

\* C6: over an empty documents directory load_documents returns nothing,
\* and append_to_index([]) without a persisted index raises and creates no
\* index.
C6_EmptyDirectoryAndNoIndex ==
    /\ (out.op = "load_documents" /\ pre.fs = NoEntries) =>
            out.status = "ok" /\ docs = <<>>
    /\ (AppendedNothing /\ ~pre.index.exists) =>
            /\ out.status = "raised"
            /\ out.error.kind \in {"RuntimeError", "EmbedderError"}
            /\ ~index.exists
            /\ vectordb = NoIndex

C6_Witness ==
    /\ AppendedNothing
    /\ ~pre.index.exists
    /\ fs = NoEntries
    /\ out.error.kind = "RuntimeError"

\* the index is made of prior followed by chunks
Extends(prior, chunks) ==
    /\ index.exists
    /\ Len(index.docs) = Len(prior) + Len(chunks)
    /\ \A i \in 1..Len(prior) : index.docs[i] = prior[i]
    /\ \A i \in 1..Len(chunks) : index.docs[Len(prior) + i] = chunks[i]

\* C7: after a successful append_to_index of a non-empty list, the
\* persisted index holds the entries it held before, followed by one entry
\* per chunk of the given documents.
C7_AppendKeepsPriorEntries ==
    /\ (out.op = "append_to_index" /\ out.status = "ok" /\ pre.docs # <<>>) =>
            Extends(pre.index.docs, split_documents(pre.docs))
    /\ pc = "rag_chain" => Extends(pre.index.docs, split_documents(docs))

C7_Witness ==
    /\ out.op = "append_to_index" /\ out.status = "ok"
    /\ pre.docs # <<>>
    /\ pre.index.exists
    /\ Len(pre.index.docs) > 0
    /\ Len(index.docs) > Len(pre.index.docs)

\* C8: after update_hash_db(new_hashes) every key of new_hashes maps to its
\* new hash, every other key stored before keeps its hash, and the store
\* holds no other key.
C8_UpdateMergesLastWriteWins ==
    out.op = "update_hash_db" =>
        /\ hash_db.exists
        /\ DOMAIN hash_db.map = DOMAIN SeenDb \cup DOMAIN pre.hashes
        /\ \A p \in DOMAIN pre.hashes : hash_db.map[p] = pre.hashes[p]
        /\ \A p \in DOMAIN SeenDb \ DOMAIN pre.hashes : hash_db.map[p] = SeenDb[p]

C8_Witness ==
    /\ out.op = "update_hash_db"
    /\ \E p \in DOMAIN pre.hashes : p \in DOMAIN SeenDb /\ SeenDb[p] # pre.hashes[p]
    /\ \E p \in DOMAIN SeenDb : p \notin DOMAIN pre.hashes

\* C9: no step removes a key from the fingerprint store.
C9_FingerprintsAreNeverRemoved ==
    [][DOMAIN load_hash_db(hash_db) \subseteq DOMAIN load_hash_db(hash_db')]_vars

C9_Witness ==
    \E p \in DOMAIN load_hash_db(hash_db) : p \notin DOMAIN fs

InternalKinds ==
    {"APIError", "sqlite3.Error", "OSError", "LoaderError", "EmbedderError",
     "IndexError", "RuntimeError"}

InternalFailure == pc = "raised" /\ out.cause.kind \in InternalKinds

\* C10 as stated: every internal failure of generate_story reaches the
\* caller as the error that was first raised.
C10_FailuresReachCallerUnchanged ==
    InternalFailure => out.error = out.cause

\* C10 amended: a failure of the retrieval branch reaches the caller as the
\* error first raised; a failure of the direct branch reaches it as a
\* ValueError whose message ends with the message of the error first
\* raised; no failure is swallowed: a call that returns has got its story,
\* inserted its record and written its story file.
C10_DirectFailuresAreWrapped ==
    /\ (InternalFailure /\ IsRag) => out.error = out.cause
    /\ (InternalFailure /\ IsDirect) =>
            out.error = Err("ValueError", "Failed to generate story: " \o out.cause.msg)
    /\ pc = "returned" =>
            /\ out.status = "ok" /\ out.cause = NoErr
            /\ story \in StoryTexts
            /\ Len(stories) = Len(pre.stories) + 1
            /\ StoryRelPath(req.timestamp) \in DOMAIN fs
            /\ IsRag => docs # <<>> /\ index.exists /\ vectordb = index

C10_Witness ==
    /\ InternalFailure
    /\ IsDirect
    /\ out.cause.kind = "sqlite3.Error"
    /\ out.error.kind = "ValueError"

\* the models-list probe of the running call did not find the model served
ProbeFailed == req.op = "generate_story" /\ probe \in ProbeOutcomes \ {"ok"}

\* C11: when the server is unreachable, times out, answers the probe with
\* another status than 200 or does not list the model, generate_story
\* raises a connection error, and the call has sent no chat completion,
\* loaded no document, left the index, the fingerprints, the stories table
\* and the documents tree as they were.
C11_ProbeFailureStopsTheCall ==
    ProbeFailed =>
        /\ pc = "raised"
        /\ out.error.kind = "ConnectionError"
        /\ net = <<"GET /models">>
        /\ docs = <<>> /\ examined = {} /\ hash_db = pre.hash_db
        /\ index = pre.index /\ vectordb = NoIndex
        /\ stories = pre.stories
        /\ fs = pre.fs

C11_Witness ==
    /\ ProbeFailed
    /\ probe = "timeout"
    /\ IsRag
    /\ \E p \in Range(req.selected) : NeverSeen(p)
    /\ index.exists

\* generate_story raised one of the two input-validation errors of the
\* retrieval branch
ValidationErrors ==
    {Err("ValueError", "No documents selected for RAG mode"),
     Err("ValueError", "No documents available for RAG mode")}

RagValidationError == IsRag /\ pc = "raised" /\ out.error \in ValidationErrors

\* C12: a retrieval request that raises an input-validation error has sent
\* no chat completion, left the persisted index as it was, inserted no
\* story record and written no story file; and the retrieval branch gets
\* past its validation only with a selection and with documents loaded.
C12_ValidationErrorLeavesNoTrace ==
    /\ RagValidationError =>
            /\ "POST /chat/completions" \notin Range(net)
            /\ index = pre.index /\ vectordb = NoIndex
            /\ stories = pre.stories
            /\ fs = pre.fs
    /\ (IsRag /\ pc \in {"rag_append", "rag_chain", "rag_add_story", "rag_store", "returned"}) =>
            req.selected # <<>> /\ docs # <<>>

C12_Witness ==
    /\ RagValidationError
    /\ out.error.msg = "No documents available for RAG mode"
    /\ index.exists
    /\ stories # <<>>
    /\ \E p \in Range(req.selected) : HashMatches(p)

\* C13: a generate_story call that returns has inserted exactly one story
\* record, whose prompt is the user input, whose response is the story
\* returned, whose system prompt is the one of the call, whose style is the
\* selected style and whose mode is the mode the request was made with.
C13_RecordHasRequestFields ==
    pc = "returned" =>
        /\ Len(stories) = Len(pre.stories) + 1
        /\ SubSeq(stories, 1, Len(pre.stories)) = pre.stories
        /\ Last(stories).prompt = req.user_input
        /\ Last(stories).response = story
        /\ Last(stories).system_prompt = req.system_prompt
        /\ Last(stories).style = req.selected_style
        /\ Last(stories).mode = req.mode

\* the name the claim gives the file of a timestamp: every ':' is a '-'
\* and every 'T' a '_'
IsSanitized(name, timestamp) ==
    /\ Len(name) = Len(timestamp)
    /\ \A i \in 1..Len(timestamp) :
            /\ timestamp[i] = ":" => name[i] = "-"
            /\ timestamp[i] = "T" => name[i] = "_"
            /\ timestamp[i] \notin {":", "T"} => name[i] = timestamp[i]

\* C14: store_story_to_memory(story_text, timestamp) returns the path of
\* story_<timestamp with ':' as '-' and 'T' as '_'>.txt in the memory
\* stories directory; after the call that file holds "[Time: <timestamp>]",
\* a blank line, the story text and a newline, whatever it held before, and
\* the other files are as they were.
C14_StoryFileNameAndContent ==
    out.op = "store_story_to_memory" =>
        \E name \in {SubSeq(out.path, 6, Len(out.path) - 1)} :
            /\ IsSanitized(name, req.timestamp)
            /\ out.path = <<DOCS_PATH, "/", MEMORY_STORIES_DIR, "/", "story_">>
                              \o name \o <<".txt">>
            /\ SubSeq(out.path, 3, Len(out.path)) \in DOMAIN fs
            /\ fs[SubSeq(out.path, 3, Len(out.path))] =
                    <<"[Time: ">> \o req.timestamp \o <<"]", "\\n\\n">>
                        \o req.story_text \o <<"\\n">>
            /\ \A p \in DOMAIN pre.fs \ {SubSeq(out.path, 3, Len(out.path))} :
                    p \in DOMAIN fs /\ fs[p] = pre.fs[p]
            /\ DOMAIN fs = DOMAIN pre.fs \cup {SubSeq(out.path, 3, Len(out.path))}

C14_Witness ==
    /\ out.op = "store_story_to_memory"
    /\ Cardinality({i \in DOMAIN req.timestamp : req.timestamp[i] = ":"}) = 2
    /\ "T" \in Range(req.timestamp)
    /\ SubSeq(out.path, 3, Len(out.path)) \in DOMAIN pre.fs
    /\ pre.fs[SubSeq(out.path, 3, Len(out.path))] # fs[SubSeq(out.path, 3, Len(out.path))]
    /\ req.story_text # <<>>

BothReturned == calls # NoCalls /\ \A c \in Callers : calls[c].pc = "returned"

HoldsChunksOf(c) ==
    \A i \in DOMAIN calls[c].chunks : calls[c].chunks[i] \in Range(index.docs)

\* C15: two append_to_index invocations run side by side with nothing to
\* keep one out while the other is between its load and its save.  When
\* both have returned, the persisted index is the store one of them saved:
\* the entries persisted before the two calls, followed by the chunks of
\* both calls in either order or by the chunks of one call alone.
C15_ConcurrentAppendsKeepPriorEntries ==
    BothReturned =>
        /\ index.exists
        /\ \E c \in Callers : index = calls[c].vectordb /\ HoldsChunksOf(c)
        /\ index.docs \in
              {pre.index.docs \o calls[1].chunks \o calls[2].chunks,
               pre.index.docs \o calls[2].chunks \o calls[1].chunks,
               pre.index.docs \o calls[1].chunks,
               pre.index.docs \o calls[2].chunks}

\* both calls returned and the persisted index lacks the chunks of one
C15_Witness ==
    /\ BothReturned
    /\ pre.index.exists
    /\ \E c \in Callers : calls[c].chunks # <<>> /\ ~HoldsChunksOf(c)
                              /\ \A i \in DOMAIN calls[c].chunks :
                                    calls[c].chunks[i] \notin Range(index.docs)

\* the chain of the running retrieval request has run its retriever
Retrieved == IsRag /\ pc \in {"rag_add_story", "rag_store", "returned"}

\* C16: the retriever of a retrieval request hands the chain at most k
\* chunks, each of them an entry of the handle append_to_index returned to
\* that request, and no entry twice.
C16_AtMostKChunksOfTheHandle ==
    IsRag =>
        /\ Len(retrieved) <= k
        /\ \E at \in [DOMAIN retrieved -> DOMAIN vectordb.docs] :
              /\ \A i \in DOMAIN retrieved : retrieved[i] = vectordb.docs[at[i]]
              /\ \A i, j \in DOMAIN retrieved : at[i] = at[j] => i = j

C16_Witness ==
    /\ Retrieved
    /\ Len(vectordb.docs) > k
    /\ Len(retrieved) = k
    /\ Len(pre.index.docs) > 0

\* a is a run of consecutive tokens of b
IsInfix(a, b) == \E i \in 0..(Len(b) - Len(a)) : SubSeq(b, i + 1, i + Len(a)) = a

\* the entries the last append_to_index added to the persisted index
Added == SubSeq(index.docs, Len(pre.index.docs) + 1, Len(index.docs))

\* every chunk has one unit of units it was cut from: a unit with the
\* chunk's source path that holds the chunk's text as a run of its own
\* text; the chunks follow the order of their units
CutFromOneUnitEach(chunks, units) ==
    \E owner \in [DOMAIN chunks -> DOMAIN units] :
        /\ \A i \in DOMAIN chunks :
              /\ chunks[i].source = units[owner[i]].source
              /\ chunks[i].page_content # <<>>
              /\ IsInfix(chunks[i].page_content, units[owner[i]].page_content)
        /\ \A i, j \in DOMAIN chunks : i <= j => owner[i] <= owner[j]

\* C17: every chunk the splitting step of append_to_index produces is cut
\* from one of the TextUnits given and carries that unit's source path; no
\* chunk holds text of two TextUnits.
C17_ChunksStayInsideOneUnit ==
    /\ (out.op = "append_to_index" /\ out.status = "ok" /\ pre.docs # <<>>) =>
            CutFromOneUnitEach(Added, pre.docs)
    /\ pc = "rag_chain" => CutFromOneUnitEach(Added, docs)

C17_Witness ==
    /\ out.op = "append_to_index" /\ out.status = "ok"
    /\ Len(pre.docs) >= 3
    /\ Len(Added) > Len(pre.docs)
    /\ \E i, j \in DOMAIN pre.docs : pre.docs[i].source # pre.docs[j].source

\* the loader of the last call came to a file its format loader cannot read
MalformedReached ==
    \E p \in DOMAIN pre.fs :
        Loads(pre.fs, SeenDb, pre.selected, p) /\ Malformed(p, pre.fs[p])

\* the walk of the last call, as far as it got
WalkOfLastCall ==
    WalkFiles(WalkOrder(DOMAIN pre.fs), pre.fs, DOCS_PATH, SeenDb, pre.selected,
              [raised |-> FALSE, docs |-> <<>>, hashes |-> NoEntries])

\* C18: a load_documents run that comes to a malformed file with a
\* supported extension raises the loader's error to its caller and hands
\* it no TextUnit, whatever it had loaded before; generate_story passes
\* the error on and goes no further.
C18_LoaderFailureReturnsNothing ==
    /\ (out.op = "load_documents" /\ MalformedReached) =>
            /\ out.status = "raised"
            /\ out.error.kind = "LoaderError"
            /\ docs = <<>>
    /\ (out.op = "load_documents" /\ out.status = "raised") => MalformedReached
    /\ (IsRag /\ req.selected # <<>> /\ MalformedReached
            /\ pc \notin {"load_llm", "rag_check", "rag_load"}) =>
            /\ pc = "raised"
            /\ out.error.kind \in {"LoaderError", "ConnectionError"}
            /\ docs = <<>>

C18_Witness ==
    /\ out.op = "load_documents"
    /\ out.status = "raised"
    /\ WalkOfLastCall.raised
    /\ WalkOfLastCall.docs # <<>>
    /\ docs = <<>>

\* the row is the record of the add_story call e
IsRecordOf(row, e) ==
    /\ row # NULL
    /\ row.id = e.id
    /\ row.prompt = e.prompt /\ row.response = e.response
    /\ row.style = e.style /\ row.mode = e.mode

\* C19: the id add_story returns is not null but a row id; get_story on it returns, then
\* and later, the record with that id and with the prompt, the response,
\* the style and the mode the call was given; two add_story calls never
\* return the same id.
C19_AddThenGetRoundTrip ==
    /\ \A i \in DOMAIN issued :
          /\ issued[i].id \in Nat \ {0}
          /\ IsRecordOf(get_story(stories, issued[i].id), issued[i])
    /\ \A i, j \in DOMAIN issued : i # j => issued[i].id # issued[j].id
    /\ out.op = "add_story" => out.id = Last(issued).id
    /\ out.op = "get_story" =>
          \A i \in DOMAIN issued :
              issued[i].id = req.story_id => IsRecordOf(out.row, issued[i])

C19_Witness ==
    /\ out.op = "get_story"
    /\ Len(issued) >= 2
    /\ req.story_id = issued[2].id
    /\ issued[1].prompt # issued[2].prompt
    /\ out.row # NULL

C21_DirectReturnsStoryNoSourcesTimestamp ==
    (IsDirect /\ pc = "returned") =>
        /\ out.status = "ok"
        /\ out.result.story = story /\ out.result.story \in StoryTexts
        /\ out.result.sources = <<>>
        /\ out.result.timestamp = req.timestamp
        /\ out.result.timestamp # <<>>
        /\ net = <<"GET /models", "POST /chat/completions">>

C21_Witness ==
    /\ IsDirect /\ pc = "returned"
    /\ out.result.story = <<"A tale.">>
    /\ index.exists
    /\ Len(stories) >= 2

\* the running call has written a fingerprint the store did not hold
NewFingerprints ==
    {p \in DOMAIN load_hash_db(hash_db) :
        IF p \in DOMAIN SeenDb THEN SeenDb[p] # load_hash_db(hash_db)[p] ELSE TRUE}

\* C22: within a retrieval request the fingerprint store gets the new
\* hashes of the loaded files only after the index was created or appended
\* to, and persisted, for those files.
C22_FingerprintsAfterIndexPersist ==
    (IsRag /\ NewFingerprints # {}) =>
        /\ index.exists
        /\ Extends(pre.index.docs, split_documents(docs))

IndexHolds(source) == \E i \in DOMAIN index.docs : index.docs[i].source = source

\* the store holds the hash of the file's present content
Fingerprinted(p) ==
    IF p \in DOMAIN load_hash_db(hash_db)
    THEN load_hash_db(hash_db)[p] = hash_file(fs[p]) ELSE FALSE

\* the file is marked as indexed, nothing of it is persisted and nothing of
\* it waits to be appended
Stranded(p) ==
    /\ p \in DOMAIN fs /\ Supported(p)
    /\ split_text(fs[p]) # <<>>
    /\ Fingerprinted(p)
    /\ ~IndexHolds(Join(DOCS_PATH, p))
    /\ DocsFrom(Join(DOCS_PATH, p)) = {}

\* C23: a file whose fingerprint was stored and whose chunks were not
\* persisted stays that way for as long as it is not changed: every later
\* loader run returns nothing of it and no step persists a chunk of it.
C23_StrandedFileStaysStranded ==
    [][\A p \in UserFiles :
          (Stranded(p) /\ p \in DOMAIN fs' /\ fs'[p] = fs[p]) => Stranded(p)']_vars

\* a loader run over a file that an earlier failed append left behind
C23_Witness ==
    /\ LoaderReturned
    /\ \E p \in DOMAIN pre.fs :
          /\ HashMatches(p) /\ Selected(p, pre.selected)
          /\ Stranded(p)
          /\ ~\E i \in DOMAIN pre.index.docs : pre.index.docs[i].source = Join(DOCS_PATH, p)

\* the store holds for p what it held when the call started
EntryUntouched(p) ==
    /\ p \in DOMAIN load_hash_db(hash_db) <=> p \in DOMAIN SeenDb
    /\ p \in DOMAIN SeenDb => load_hash_db(hash_db)[p] = SeenDb[p]

\* the loader run skipped every file that is not in the selection
SkippedOutsideSelection ==
    \A p \in DOMAIN pre.fs :
        p \notin Range(pre.selected.items) =>
            DocsFrom(Join(DOCS_PATH, p)) = {} /\ EntryUntouched(p)

\* C24 as stated: when a selection is passed to load_documents, every file
\* whose relative path is not in it yields no TextUnit and gets no
\* fingerprint, new or changed.
C24_SelectionFilters ==
    (LoaderReturned /\ ~pre.selected.none) => SkippedOutsideSelection

\* C24 amended: the same, when the selection passed is not empty.
C24_NonEmptySelectionFilters ==
    (LoaderReturned /\ Truthy(pre.selected)) => SkippedOutsideSelection

C24_Witness ==
    /\ LoaderReturned
    /\ Truthy(pre.selected)
    /\ docs # <<>>
    /\ \E p \in DOMAIN pre.fs :
          /\ p \notin Range(pre.selected.items)
          /\ Supported(p) /\ ~Malformed(p, pre.fs[p])
          /\ p \notin DOMAIN SeenDb

NoDocumentsAvailable == Err("ValueError", "No documents available for RAG mode")

\* when the request started, the store held the present hash of every
\* selected file
AllSelectedFingerprinted == \A p \in Range(req.selected) : HashMatches(p)

\* the call has not appended to the index, queried it or generated a story
NothingGenerated ==
    /\ pc \in {"load_llm", "rag_check", "rag_load", "raised"}
    /\ index = pre.index /\ vectordb = NoIndex
    /\ retrieved = <<>>
    /\ story = <<>> /\ "POST /chat/completions" \notin Range(net)

\* C25 as stated: a retrieval request whose selected files all have their
\* present hash in the fingerprint store raises 'No documents available
\* for RAG mode' without appending to the index, querying it or generating
\* a story.
C25_AllFingerprintedRaisesNoDocuments ==
    (IsRag /\ AllSelectedFingerprinted) =>
        /\ NothingGenerated
        /\ pc = "raised" => out.error = NoDocumentsAvailable

\* C25 amended: with a selection that is not empty, such a request raises
\* 'No documents available for RAG mode' when the models-list probe
\* succeeds and the connection error of the probe otherwise; in both cases
\* without appending to the index, querying it or generating a story.
C25_NoDocumentsAfterProbe ==
    (IsRag /\ req.selected # <<>> /\ AllSelectedFingerprinted) =>
        /\ NothingGenerated
        /\ (pc = "raised" /\ probe = "ok") => out.error = NoDocumentsAvailable
        /\ (pc = "raised" /\ probe # "ok") => out.error.kind = "ConnectionError"

\* the second request over files a first request has indexed
C25_Witness ==
    /\ IsRag /\ req.selected # <<>> /\ AllSelectedFingerprinted
    /\ pc = "raised" /\ out.error = NoDocumentsAvailable
    /\ \A p \in Range(req.selected) : IndexHolds(Join(DOCS_PATH, p))
    /\ stories # <<>>

\* the loader of the last call raised
LoaderRaised ==
    \/ out.op = "load_documents" /\ out.status = "raised"
    \/ IsRag /\ pc = "raised" /\ out.cause.kind = "LoaderError"

\* C26: when load_documents raises, the fingerprint file is what it was
\* before the call, also for the files the walk had loaded before the one
\* that failed.
C26_LoaderFailureLeavesFingerprints ==
    LoaderRaised => hash_db = pre.hash_db

C26_Witness ==
    /\ LoaderRaised
    /\ IsRag
    /\ WalkOfLastCall.hashes # NoEntries
    /\ \E p \in DOMAIN WalkOfLastCall.hashes : p \notin DOMAIN load_hash_db(hash_db)

\* C27: when generate_story raises, the call has inserted no story record
\* and written no story file.
C27_RaiseLeavesNoRecordNoFile ==
    (req.op = "generate_story" /\ pc = "raised") =>
        /\ stories = pre.stories
        /\ fs = pre.fs

\* s is the beginning of t
IsPrefix(s, t) == Len(s) <= Len(t) /\ SubSeq(t, 1, Len(s)) = s

\* the persisted index holds a chunk of source cut from text
HoldsChunkOf(source, text) ==
    \E i \in DOMAIN index.docs :
        /\ index.docs[i].source = source
        /\ index.docs[i].page_content # <<>>
        /\ IsInfix(index.docs[i].page_content, text)

StoryFiles == {p \in DOMAIN fs : Head(p) = MEMORY_STORIES_DIR}

\* the index holds the story of the file p as the add-to-memory step
\* appends it: the story text alone, under the path of the file
EmbeddedByMemoryStep(p) ==
    \E t \in StoryTexts :
        /\ fs[p] = StoryFileContent(t, SubSeq(fs[p], 2, Len(fs[p]) - Len(t) - 3))
        /\ \E i \in DOMAIN index.docs :
              /\ index.docs[i].source = Join(DOCS_PATH, p)
              /\ index.docs[i].page_content \in Range(split_text(t))

\* the index holds the story of the file p as a loader run embeds it: the
\* content of the file, which begins with the time of the story
EmbeddedByLoader(p) ==
    \E i \in DOMAIN index.docs :
        /\ index.docs[i].source = Join(DOCS_PATH, p)
        /\ index.docs[i].page_content \in Range(split_text(fs[p]))
        /\ Head(index.docs[i].page_content) = "[Time: "

\* C29: the content of a file is embedded into the index at most once; a
\* story file that the add-to-memory step has appended to the index is not
\* embedded again by a later loader run that includes it.
C29_StoryEmbeddedAtMostOnce ==
    \A p \in StoryFiles : ~(EmbeddedByMemoryStep(p) /\ EmbeddedByLoader(p))

\* what load_documents does over the files of the last call when it is
\* given no selection
WithNoSelection == load_documents(pre.fs, pre.hash_db, DOCS_PATH, NoSelection)

\* C30: load_documents with an empty selection list does what it does
\* with no selection: it raises in the same cases, and otherwise returns
\* the TextUnits of every supported changed file and stores its
\* fingerprint; no file is filtered out.
C30_EmptySelectionIsNoSelection ==
    (out.op = "load_documents" /\ pre.selected = ListOf(<<>>)) =>
        /\ out.status = "raised" <=> WithNoSelection.raised
        /\ docs = WithNoSelection.docs
        /\ hash_db = WithNoSelection.hash_db
        /\ out.status = "ok" =>
              \A p \in DOMAIN pre.fs :
                  (Supported(p) /\ ~HashMatches(p)) =>
                      /\ DocsFrom(Join(DOCS_PATH, p)) # {}
                      /\ p \in DOMAIN load_hash_db(hash_db)
                      /\ load_hash_db(hash_db)[p] = hash_file(pre.fs[p])

C30_Witness ==
    /\ out.op = "load_documents" /\ pre.selected = ListOf(<<>>)
    /\ out.status = "ok"
    /\ \E p \in DOMAIN pre.fs : Supported(p) /\ ~HashMatches(p) /\ pre.fs[p] # <<>>
    /\ \E p \in DOMAIN pre.fs : HashMatches(p)

====
